---------------------------- MODULE Spec2Model ----------------------------
(***************************************************************************)
(* A model of rubik3.cpp: the N-dimensional 3x3x...x3 twisty puzzle.       *)
(*                                                                         *)
(* A vec (std::array<coord_t, DIMS>) is a function 0..DIMS-1 -> 0..255, a  *)
(* Point is a record of its three vecs, and Cube::points is a function     *)
(* 0..NUM_POINTS-1 -> Point.  A Rotation is a record of its four fields.   *)
(***************************************************************************)
EXTENDS Integers, Sequences, FiniteSets, TLC

VARIABLES
    DIMS,                  \* the template parameter of Cube / Point / random
    points,                \* Cube::points
    pc,                    \* where the program is
    moves,                 \* number of rotations the driver has applied
    r,                     \* the rotation last handed to the cube
    saved,                 \* points as they were before the current operation
    entry,                 \* points as they were when solve() was entered
    rotate_calls,          \* calls of Cube::rotate made by the current operation
    rotations,             \* solve(): the vector of kept rotations
    last_unsolvedness,     \* solve(): local of the loop body
    current_unsolvedness,  \* solve(): local of the loop body
    random_value,          \* solve(): local of the loop body
    reported,              \* solve(): the size printed on return
    idx,                   \* Cube(): the constructor's loop index
    i,                     \* shuffle(): its loop index
    rnd,                   \* Rotation::random: its locals side, axis, from, to
    input                  \* main(): the line last read from the user

vars == <<DIMS, points, pc, moves, r, saved, entry, rotate_calls, rotations,
          last_unsolvedness, current_unsolvedness, random_value, reported,
          idx, i, rnd, input>>

solveVars == <<entry, rotations, last_unsolvedness, current_unsolvedness,
               random_value, reported>>

loopVars == <<idx, i>>

-----------------------------------------------------------------------------
(* Bounds of the model.                                                    *)

\* rotations the driver applies before it stops
MaxMoves == 2
\* rotations solve() may keep in its history
MaxHistory == 1
\* largest DIMS the constructor is instantiated with
MaxDims == 4
\* lines main() reads from the user
MaxInputs == 2

-----------------------------------------------------------------------------
(* Program constants.                                                      *)

INIT_DIMS == 3
FRONT == 0
BACK == 2
UndoCount == 3
WorseThreshold == 90
NotWorseThreshold == 10

\* a value of type uint8_t
U8(n) == n % 256

-----------------------------------------------------------------------------
(* ipow, Point::create, Point::from_index.                                 *)

\* exponentiation by squaring that forgets to square the base
RECURSIVE ipow_NoSquare(_, _, _)
ipow_NoSquare(base, exp, result) ==
    IF exp < 1
    THEN result
    ELSE ipow_NoSquare(base, exp \div 2,
                       IF exp % 2 # 0 THEN result * base ELSE result)

RECURSIVE ipow(_, _, _)
ipow(base, exp, result) ==
    IF exp < 1
    THEN result
    ELSE ipow(base * base, exp \div 2,
              IF exp % 2 # 0 THEN result * base ELSE result)

NUM_POINTS(dims) == ipow(3, dims, 1)

\* std::iota(orientation.begin(), orientation.end(), 0)
Iota(dims) == [k \in 0 .. dims - 1 |-> U8(k)]

\* the aggregate's last two fields in the wrong order
create_FieldsSwapped(in, dims) ==
    [original_coords |-> in, coords |-> Iota(dims), orientation |-> in]

create(in, dims) ==
    [original_coords |-> in, coords |-> in, orientation |-> Iota(dims)]

from_index(n, dims) ==
    create([index \in 0 .. dims - 1 |-> U8((n \div ipow(3, index, 1)) % 3)], dims)

\* vec x = {0}: a default-initialised Point
DefaultPoint(dims) ==
    [original_coords |-> [k \in 0 .. dims - 1 |-> 0],
     coords          |-> [k \in 0 .. dims - 1 |-> 0],
     orientation     |-> [k \in 0 .. dims - 1 |-> 0]]

\* Cube::Cube() run to completion
Cube(dims) == [n \in 0 .. NUM_POINTS(dims) - 1 |-> from_index(n, dims)]

-----------------------------------------------------------------------------
(* Point::rotate.                                                          *)

\* the two assertions at the top of Point::rotate
RotationAssertsHold(rot, dims) ==
    /\ rot.axis # rot.from /\ rot.from # rot.to /\ rot.to # rot.axis
    /\ rot.axis < dims /\ rot.from < dims /\ rot.to < dims

\* the nested switch: (coords[from], coords[to]) -> their new values
InTable(cf, ct) == cf \in {0, 1, 2} /\ ct \in {0, 1, 2}

\* NewPair with one entry mistyped: (0,2) -> (2,0)
NewPair_Typo(cf, ct) ==
    CASE cf = 0 /\ ct = 0 -> <<2, 0>>
      [] cf = 0 /\ ct = 1 -> <<1, 0>>
      [] cf = 0 /\ ct = 2 -> <<2, 0>>
      [] cf = 1 /\ ct = 0 -> <<2, 1>>
      [] cf = 1 /\ ct = 1 -> <<1, 1>>
      [] cf = 1 /\ ct = 2 -> <<0, 1>>
      [] cf = 2 /\ ct = 0 -> <<2, 2>>
      [] cf = 2 /\ ct = 1 -> <<1, 2>>
      [] cf = 2 /\ ct = 2 -> <<0, 2>>
      [] OTHER -> <<cf, ct>>

NewPair(cf, ct) ==
    CASE cf = 0 /\ ct = 0 -> <<2, 0>>
      [] cf = 0 /\ ct = 1 -> <<1, 0>>
      [] cf = 0 /\ ct = 2 -> <<0, 0>>
      [] cf = 1 /\ ct = 0 -> <<2, 1>>
      [] cf = 1 /\ ct = 1 -> <<1, 1>>
      [] cf = 1 /\ ct = 2 -> <<0, 1>>
      [] cf = 2 /\ ct = 0 -> <<2, 2>>
      [] cf = 2 /\ ct = 1 -> <<1, 2>>
      [] cf = 2 /\ ct = 2 -> <<0, 2>>
      [] OTHER -> <<cf, ct>>

\* a swap written without a temporary: a = b; b = a
SwapOrientation_NoTemp(o, f, t) == [o EXCEPT ![f] = o[t], ![t] = o[t]]

\* std::swap(orientation[from_axis], orientation[to_axis])
SwapOrientation(o, f, t) == [o EXCEPT ![f] = o[t], ![t] = o[f]]

\* the slice test left out: every point is rotated
OnSlice_Always(p, rot) == TRUE

\* the slice test reading the wrong component: coords[r.from] != r.side
OnSlice_FromAxis(p, rot) == p.coords[rot.from] = rot.side

\* if (coords[r.axis] != r.side) return: the point is on the rotated slice
OnSlice(p, rot) == p.coords[rot.axis] = rot.side

\* Point::rotate taking case 1 / case 1 to leave the whole point alone
Point_rotate_CenterKept(p, rot) ==
    IF ~OnSlice(p, rot) \/ (p.coords[rot.from] = 1 /\ p.coords[rot.to] = 1)
    THEN p
    ELSE LET np == NewPair(p.coords[rot.from], p.coords[rot.to])
         IN  [p EXCEPT
                !.orientation = SwapOrientation(p.orientation, rot.from, rot.to),
                !.coords = [[p.coords EXCEPT ![rot.from] = np[1]]
                                       EXCEPT ![rot.to] = np[2]]]

Point_rotate(p, rot) ==
    IF ~OnSlice(p, rot)
    THEN p
    ELSE LET np == NewPair(p.coords[rot.from], p.coords[rot.to])
         IN  [p EXCEPT
                !.orientation = SwapOrientation(p.orientation, rot.from, rot.to),
                !.coords = [[p.coords EXCEPT ![rot.from] = np[1]]
                                       EXCEPT ![rot.to] = np[2]]]

\* a point that runs into one of the assert(false) default branches
HitsDefault(p, rot) ==
    OnSlice(p, rot) /\ ~InTable(p.coords[rot.from], p.coords[rot.to])

-----------------------------------------------------------------------------
(* Point's status queries.                                                 *)

is_in_original_position(p) == p.coords = p.original_coords

\* std::is_sorted
is_in_original_orientation(p) ==
    \A k \in DOMAIN p.orientation :
        (k + 1) \in DOMAIN p.orientation => p.orientation[k] <= p.orientation[k + 1]

\* std::count(coords.begin(), coords.end(), 1) == DIMS - 1
is_center(p) ==
    Cardinality({k \in DOMAIN p.coords : p.coords[k] = 1})
        = Cardinality(DOMAIN p.coords) - 1

\* the difference taken without std::abs
Abs_Missing(x) == x

\* std::abs
Abs(x) == IF x < 0 THEN -x ELSE x

RECURSIVE DistFrom(_, _)
DistFrom(p, k) ==
    IF k \notin DOMAIN p.coords
    THEN 0
    ELSE Abs(p.coords[k] - p.original_coords[k]) + DistFrom(p, k + 1)

dist_from_original(p) == DistFrom(p, 0)

incorrectness(p) ==
    LET smallmod == IF is_in_original_orientation(p) THEN 0 ELSE 1
    IN  dist_from_original(p) + smallmod * 10

-----------------------------------------------------------------------------
(* Cube.  An operation works on c = [points, calls]: the points and the    *)
(* number of calls of Cube::rotate made so far.                            *)

\* the lambda taking its point by value: no point of the cube changes
Cube_rotate_ByValue(c, rot) == [points |-> c.points, calls |-> c.calls + 1]

Cube_rotate(c, rot) ==
    [points |-> [n \in DOMAIN c.points |-> Point_rotate(c.points[n], rot)],
     calls  |-> c.calls + 1]

\* a cube on which the current operation has not yet called rotate
Fresh(ps) == [points |-> ps, calls |-> 0]

RECURSIVE rotate_n(_, _, _)
rotate_n(c, rot, n) ==
    IF n = 0 THEN c ELSE Cube_rotate(rotate_n(c, rot, n - 1), rot)

\* undoing with two further applications instead of three
undo_rotation_Twice(c, rot) == rotate_n(c, rot, 2)

undo_rotation(c, rot) == rotate_n(c, rot, UndoCount)

is_solved(ps) ==
    \A n \in DOMAIN ps :
        /\ is_in_original_position(ps[n])
        /\ (is_in_original_orientation(ps[n]) \/ is_center(ps[n]))

RECURSIVE SumIncorrectness(_, _)
SumIncorrectness(ps, n) ==
    IF n \notin DOMAIN ps
    THEN 0
    ELSE incorrectness(ps[n]) + SumIncorrectness(ps, n + 1)

unsolvedness(ps) == SumIncorrectness(ps, 0)

\* a rotation aborts the program when an assertion of Point::rotate fails
RotateAborts(ps, rot, dims) ==
    \/ ~RotationAssertsHold(rot, dims)
    \/ \E n \in DOMAIN ps : HitsDefault(ps[n], rot)

-----------------------------------------------------------------------------
(* Rotation::random.  The values its loops can return: side is             *)
(* (rand() & 1) * 2, axis is any rand() % DIMS, from leaves its loop when  *)
(* it differs from axis, to leaves its loop when it differs from both.     *)

RandomRotations(dims) ==
    {[axis |-> U8(a), from |-> U8(f), to |-> U8(t), side |-> s] :
        <<a, f, t, s>> \in
            {q \in (0 .. dims - 1) \X (0 .. dims - 1) \X (0 .. dims - 1) \X {0, 2} :
                q[2] # q[1] /\ q[3] # q[1] /\ q[3] # q[2]}}

\* the locals of a call that has not happened yet
NoRotation == [axis |-> 255, from |-> 255, to |-> 255, side |-> 255]
NoValue == -1

RECURSIVE RotateAll(_, _, _)
RotateAll(c, seq, k) ==
    IF k > Len(seq) THEN c ELSE RotateAll(Cube_rotate(c, seq[k]), seq, k + 1)


-----------------------------------------------------------------------------
(* The inputs of the driver.                                               *)

\* the rotations a caller may hand to Cube::rotate: they satisfy the
\* assertions of Point::rotate and their side is a value of enum Side
ValidRotations(dims) ==
    {rot \in [axis : 0 .. dims - 1, from : 0 .. dims - 1, to : 0 .. dims - 1,
              side : {FRONT, BACK}] : RotationAssertsHold(rot, dims)}

Rot(a, f, t, s) == [axis |-> a, from |-> f, to |-> t, side |-> s]

\* eighteen quarter turns that bring every piece home and leave two face
\* centres turned by a quarter
CenterTwist ==
    LET S == <<Rot(0, 1, 2, 2), Rot(0, 1, 2, 0), Rot(1, 0, 2, 2), Rot(1, 0, 2, 2),
               Rot(1, 0, 2, 0), Rot(1, 0, 2, 0), Rot(0, 1, 2, 2), Rot(0, 1, 2, 0)>>
    IN  S \o <<Rot(2, 0, 1, 2)>> \o S \o <<Rot(2, 0, 1, 0)>>

\* the sequences of rotations one call of shuffle draws from Rotation::random:
\* every draw of shuffle(0) and shuffle(1), and one draw of shuffle(18)
ShuffleDraws(dims) ==
    {<<>>} \cup {<<rot>> : rot \in RandomRotations(dims)} \cup {CenterTwist}

\* the values of rand() % 100 the solver is run with
RandomValues == {9, 10, 89, 90}

-----------------------------------------------------------------------------
(* The program: a cube is constructed, shuffled, turned and solved.        *)

Init ==
    /\ DIMS = INIT_DIMS
    /\ points = Cube(INIT_DIMS)
    /\ pc = "idle"
    /\ moves = 0
    /\ r = NoRotation
    /\ saved = Cube(INIT_DIMS)
    /\ entry = Cube(INIT_DIMS)
    /\ rotate_calls = 0
    /\ rotations = <<>>
    /\ last_unsolvedness = NoValue
    /\ current_unsolvedness = NoValue
    /\ random_value = NoValue
    /\ reported = NoValue
    /\ idx = NUM_POINTS(INIT_DIMS)
    /\ i = 0
    /\ rnd = NoRotation
    /\ input = <<>>

\* c.shuffle(times), the times rotations drawn being draws
Shuffle(draws) ==
    /\ pc = "idle"
    /\ moves = 0
    /\ LET c == RotateAll(Fresh(points), draws, 1)
       IN  /\ points' = c.points
           /\ rotate_calls' = c.calls
    /\ saved' = points
    /\ moves' = Len(draws)
    /\ pc' = "shuffled"
    /\ UNCHANGED <<DIMS, r, solveVars, loopVars, rnd, input>>

\* c.rotate(rot)
Rotate(rot) ==
    /\ pc \in {"idle", "shuffled", "rotated", "undone"}
    /\ moves < MaxMoves
    /\ LET c == Cube_rotate(Fresh(points), rot)
       IN  /\ points' = c.points
           /\ rotate_calls' = c.calls
    /\ saved' = points
    /\ r' = rot
    /\ moves' = moves + 1
    /\ pc' = "rotated"
    /\ UNCHANGED <<DIMS, solveVars, loopVars, rnd, input>>

\* c.undo_rotation(r) of the rotation just applied
UndoRotation ==
    /\ pc = "rotated"
    /\ LET c == undo_rotation(Fresh(points), r)
       IN  /\ points' = c.points
           /\ rotate_calls' = c.calls
    /\ pc' = "undone"
    /\ UNCHANGED <<DIMS, moves, r, saved, solveVars, loopVars, rnd, input>>

\* c.solve() is entered
SolveEnter ==
    /\ pc = "shuffled"
    /\ rotations' = <<>>
    /\ r' = NoRotation
    /\ saved' = points
    /\ entry' = points
    /\ rotate_calls' = 0
    /\ pc' = "solve_loop"
    /\ UNCHANGED <<DIMS, points, moves, last_unsolvedness, current_unsolvedness,
                   random_value, reported, loopVars, rnd, input>>

\* the thresholds compared with <= instead of <
Undoes_Inclusive(last, current, v) ==
    IF current > last THEN v <= WorseThreshold ELSE v <= NotWorseThreshold

\* whether the loop body undoes the rotation it tried
Undoes(last, current, v) ==
    IF current > last THEN v < WorseThreshold ELSE v < NotWorseThreshold

\* the loop body without rotations.pop_back() where the move is undone
Pass_NoPop(ps, hist, rot, v) ==
    LET last    == unsolvedness(ps)
        tried   == Cube_rotate(Fresh(ps), rot)
        current == unsolvedness(tried.points)
        undone  == undo_rotation(tried, rot)
    IN  IF Undoes(last, current, v)
        THEN [points |-> undone.points, calls |-> undone.calls,
              rotations |-> Append(hist, rot),
              last |-> last, current |-> current]
        ELSE [points |-> tried.points, calls |-> tried.calls,
              rotations |-> Append(hist, rot),
              last |-> last, current |-> current]

\* the loop body on a cube and a history: what it leaves of both, the
\* calls of Cube::rotate it made and the two values of unsolvedness()
Pass(ps, hist, rot, v) ==
    LET last    == unsolvedness(ps)
        tried   == Cube_rotate(Fresh(ps), rot)
        current == unsolvedness(tried.points)
        undone  == undo_rotation(tried, rot)
    IN  IF Undoes(last, current, v)
        THEN [points |-> undone.points, calls |-> undone.calls,
              rotations |-> hist,
              last |-> last, current |-> current]
        ELSE [points |-> tried.points, calls |-> tried.calls,
              rotations |-> Append(hist, rot),
              last |-> last, current |-> current]

\* one pass of the loop body, up to the line that prints unsolvedness()
SolveIteration(rot, v) ==
    /\ pc = "solve_loop"
    /\ ~is_solved(points)
    /\ Len(rotations) < MaxHistory
    /\ LET pass == Pass(points, rotations, rot, v)
       IN  /\ last_unsolvedness' = pass.last
           /\ current_unsolvedness' = pass.current
           /\ points' = pass.points
           /\ rotate_calls' = pass.calls
           /\ rotations' = pass.rotations
    /\ r' = rot
    /\ random_value' = v
    /\ saved' = points
    /\ pc' = "solve_print"
    /\ UNCHANGED <<DIMS, moves, entry, reported, loopVars, rnd, input>>

\* std::cout << unsolvedness(), and back to the loop's test
SolvePrint ==
    /\ pc = "solve_print"
    /\ pc' = "solve_loop"
    /\ r' = NoRotation
    /\ last_unsolvedness' = NoValue
    /\ current_unsolvedness' = NoValue
    /\ random_value' = NoValue
    /\ rotate_calls' = 0
    /\ saved' = points
    /\ UNCHANGED <<DIMS, points, moves, entry, rotations, reported, loopVars, rnd, input>>

\* SolveReturn with the loop's test inverted: while (is_solved())
SolveReturn_Inverted ==
    /\ pc = "solve_loop"
    /\ ~is_solved(points)
    /\ reported' = Len(rotations)
    /\ pc' = "done"
    /\ UNCHANGED <<DIMS, points, moves, r, saved, entry, rotate_calls, rotations,
                   last_unsolvedness, current_unsolvedness, random_value,
                   loopVars, rnd, input>>

\* the loop's test fails: "solved in N rotations."
SolveReturn ==
    /\ pc = "solve_loop"
    /\ is_solved(points)
    /\ reported' = Len(rotations)
    /\ pc' = "done"
    /\ UNCHANGED <<DIMS, points, moves, r, saved, entry, rotate_calls, rotations,
                   last_unsolvedness, current_unsolvedness, random_value,
                   loopVars, rnd, input>>

Next ==
    \/ \E draws \in ShuffleDraws(DIMS) : Shuffle(draws)
    \/ \E rot \in ValidRotations(DIMS) : Rotate(rot)
    \/ UndoRotation
    \/ SolveEnter
    \/ \E rot \in RandomRotations(DIMS), v \in RandomValues : SolveIteration(rot, v)
    \/ SolvePrint
    \/ SolveReturn

Spec == Init /\ [][Next]_vars

-----------------------------------------------------------------------------
(* Properties of the rotation engine (Spec).                               *)

\* C1: in every reachable state and for every valid rotation rot, rot applied
\* four times, and rot followed by undo_rotation(rot), leave every point's
\* coords and orientation as they were; a rotation the driver undoes with
\* undo_rotation gives back the points it started from.
C1_FourTimesIsIdentity ==
    /\ \A rot \in ValidRotations(DIMS) :
          /\ rotate_n(Fresh(points), rot, 4).points = points
          /\ undo_rotation(Cube_rotate(Fresh(points), rot), rot).points = points
    /\ pc = "undone" => points = saved

\* C1 witness: a rotation of an unsolved cube has been undone
C1_Witness ==
    pc = "undone" /\ ~is_solved(saved) /\ rotate_calls = UndoCount /\ moves = 2

Cells(dims) == [0 .. dims - 1 -> {0, 1, 2}]

\* C2: in every reachable state each cell of {0,1,2}^DIMS is the coords of
\* exactly one point and the original_coords of exactly one point, so no two
\* points share a position.
C2_PositionsArePermuted ==
    \A cell \in Cells(DIMS) :
        /\ Cardinality({n \in DOMAIN points : points[n].coords = cell}) = 1
        /\ Cardinality({n \in DOMAIN points : points[n].original_coords = cell}) = 1

\* C2 witness: two rotations have moved points away from where they started
C2_Witness ==
    /\ pc = "rotated" /\ moves = 2
    /\ \E n \in DOMAIN points : points[n].coords # points[n].original_coords
    /\ points # saved

\* C3 as stated: unsolvedness() is 0 exactly when is_solved() is true.
C3_ZeroIffSolved ==
    (unsolvedness(points) = 0) <=> is_solved(points)

\* the face centres whose orientation is not the original one
TurnedCenters(ps) ==
    {n \in DOMAIN ps : is_center(ps[n]) /\ ~is_in_original_orientation(ps[n])}

\* C3 as amended: unsolvedness() = 0 implies is_solved(); in a solved state
\* unsolvedness() is ten times the number of centre points that are out of
\* their original orientation, which need not be 0.
C3_ZeroImpliesSolved ==
    /\ unsolvedness(points) = 0 => is_solved(points)
    /\ is_solved(points) => unsolvedness(points) = 10 * Cardinality(TurnedCenters(points))

\* C3 witness: rotations have been applied and unsolvedness() is 0 again
C3_Witness ==
    pc = "undone" /\ moves = 1 /\ unsolvedness(points) = 0 /\ is_solved(points)

\* C6: a single valid rotation applied to a solved cube leaves it unsolved.
C6_OneRotationUnsolves ==
    (pc = "rotated" /\ is_solved(saved)) => ~is_solved(points)

\* C6 witness: the rotation axis=1, from=2, to=0, side=BACK applied to the
\* freshly constructed 3x3x3 cube
C6_Witness ==
    /\ pc = "rotated" /\ moves = 1 /\ DIMS = 3 /\ saved = Cube(DIMS)
    /\ r = Rot(1, 2, 0, BACK)

\* C9: the step that runs one loop body of solve() keeps the drawn rotation
\* at the end of the history iff (current > last and v >= 90) or
\* (current <= last and v >= 10); otherwise the history is as before and the
\* points are back where they were.
C9_AcceptanceRule ==
    [][(pc = "solve_loop" /\ pc' = "solve_print") =>
          LET last    == last_unsolvedness'
              current == current_unsolvedness'
              v       == random_value'
              keep    == \/ current > last /\ v >= 90
                         \/ current <= last /\ v >= 10
          IN  /\ last = unsolvedness(points)
              /\ current = unsolvedness(Cube_rotate(Fresh(points), r').points)
              /\ keep <=> rotations' = Append(rotations, r')
              /\ keep => points' = Cube_rotate(Fresh(points), r').points
              /\ ~keep => (rotations' = rotations /\ points' = points)]_vars

\* C9 witness: a worsening move was kept because v >= 90
C9_Witness ==
    /\ pc = "solve_print"
    /\ current_unsolvedness > last_unsolvedness
    /\ random_value >= 90
    /\ rotations = <<r>>

\* whether the pass of the loop that just ended rejected its move
Rejected ==
    /\ pc = "solve_print"
    /\ \/ current_unsolvedness > last_unsolvedness /\ random_value < 90
       \/ current_unsolvedness <= last_unsolvedness /\ random_value < 10

\* C10 as stated: a rejected move is applied three times in all, after which
\* the cube is as it was when the pass began.
C10_ThreeApplications ==
    Rejected => (rotate_calls = 3 /\ points = saved)

\* C10 as amended: a rejected move is applied four times in all (once to try
\* it, three more to undo it), after which the cube is as it was when the
\* pass began.
C10_FourApplications ==
    Rejected => (rotate_calls = 4 /\ points = saved)

\* C10 witness: a move that did not worsen the cube was rejected
C10_Witness ==
    Rejected /\ current_unsolvedness <= last_unsolvedness /\ points # Cube(DIMS)

-----------------------------------------------------------------------------
(* The solver's result.                                                     *)

\* C11: solve() returns only with is_solved() true; the number it reports is
\* the length of the history, and that history leads from the cube solve()
\* was entered with to the cube it returns; entered with a solved cube it
\* keeps every point, keeps no rotation and reports 0.
C11_SolveResult ==
    pc = "done" =>
        /\ is_solved(points)
        /\ reported = Len(rotations)
        /\ points = RotateAll(Fresh(entry), rotations, 1).points
        /\ is_solved(entry) => (points = entry /\ rotations = <<>> /\ reported = 0)

\* solve() has returned after keeping one rotation
C11_Witness ==
    pc = "done" /\ reported = 1 /\ points # entry /\ is_solved(points)

\* solve() has returned at once from a cube that is_solved() accepts although
\* two of its centres are turned
C11_SolvedAtEntry ==
    pc = "done" /\ reported = 0 /\ points = entry /\ unsolvedness(entry) > 0

\* C12: solve() need not terminate.  At every test of the loop that finds the
\* cube unsolved, some draw of Rotation::random and of rand() % 100 makes a
\* pass that is undone and leaves the cube and the history as they were, and
\* after every such pass the cube is still the unsolved cube the pass began
\* with: the pass can be repeated for ever, and no counter stops it.
C12_PassCanBeRepeated ==
    /\ (pc = "solve_loop" /\ ~is_solved(points)) =>
          \E rot \in RandomRotations(DIMS), v \in RandomValues :
              /\ Pass(points, rotations, rot, v).points = points
              /\ Pass(points, rotations, rot, v).rotations = rotations
    /\ Rejected => (points = saved /\ ~is_solved(points))

\* a pass that made the cube worse has been undone, with nothing kept so far
C12_Witness ==
    /\ Rejected
    /\ current_unsolvedness > last_unsolvedness
    /\ points = entry
    /\ rotations = <<>>

\* C16: in every state the driver reaches, each point's orientation is a
\* permutation of 0 .. DIMS-1 and each component of its coords is 0, 1 or 2,
\* so that no rotation the assertions accept reaches a default branch of
\* the switch or fails an assertion.
C16_WellFormedPoints ==
    /\ \A n \in DOMAIN points :
          /\ DOMAIN points[n].orientation = 0 .. DIMS - 1
          /\ {points[n].orientation[k] : k \in 0 .. DIMS - 1} = 0 .. DIMS - 1
          /\ DOMAIN points[n].coords = 0 .. DIMS - 1
          /\ \A k \in 0 .. DIMS - 1 : points[n].coords[k] \in {0, 1, 2}
    /\ \A rot \in ValidRotations(DIMS) : ~RotateAborts(points, rot, DIMS)

\* two rotations have been applied and some point is away from home with
\* its orientation no longer the identity
C16_Witness ==
    /\ pc = "rotated"
    /\ moves = 2
    /\ \E n \in DOMAIN points :
          /\ points[n].coords # points[n].original_coords
          /\ points[n].orientation # Iota(DIMS)
          /\ points[n].orientation # saved[n].orientation

\* the cube after the rotations of a history, applied in order to a cube
Replay(ps, seq) == RotateAll(Fresh(ps), seq, 1).points

Exchanged(rot) == [rot EXCEPT !.from = rot.to, !.to = rot.from]

\* C19: in every state the driver reaches and for every rotation r the
\* assertions accept, Cube::rotate(r) followed by Cube::rotate of r with
\* from and to exchanged gives back every point's coords and orientation.
C19_ExchangedIsInverse ==
    \A rot \in ValidRotations(DIMS) :
        Cube_rotate(Cube_rotate(Fresh(points), rot), Exchanged(rot)).points = points

\* a rotation and then the exchanged rotation have been applied to the
\* constructed cube, which is solved again
C19_Witness ==
    /\ pc = "rotated"
    /\ moves = 2
    /\ points = Cube(DIMS)
    /\ saved # points
    /\ saved = Cube_rotate(Fresh(points), Exchanged(r)).points

\* the number of components of a vec that are 1
Ones(v) == Cardinality({k \in DOMAIN v : v[k] = 1})

\* C20: in every state the driver reaches, each point has as many coords
\* components equal to 1 as it was constructed with, so is_center() answers
\* for it as it did in the constructed cube; and the point whose coords are
\* all 1 is where and how it was constructed.
C20_PieceTypeKept ==
    \A n \in DOMAIN points :
        /\ Ones(points[n].coords) = Ones(points[n].original_coords)
        /\ is_center(points[n]) <=> is_center(from_index(n, DIMS))
        /\ Ones(points[n].original_coords) = DIMS => points[n] = from_index(n, DIMS)

\* two rotations have been applied: a face centre has been turned and is
\* still a centre, an edge piece has moved, and the all-1 point is untouched
C20_Witness ==
    /\ pc = "rotated"
    /\ moves = 2
    /\ \E n \in DOMAIN points :
          /\ is_center(points[n])
          /\ points[n].orientation # saved[n].orientation
    /\ \E n \in DOMAIN points :
          /\ Ones(points[n].coords) = 1
          /\ points[n].coords # saved[n].coords
    /\ \E n \in DOMAIN points :
          /\ Ones(points[n].coords) = DIMS
          /\ points[n] = from_index(n, DIMS)

-----------------------------------------------------------------------------
(* Construction and Rotation::random, statement by statement, for every    *)
(* DIMS the templates can be instantiated with (SpecDims): Cube<DIMS> is   *)
(* constructed point by point, then shuffle(1) draws one rotation and      *)
(* applies it.                                                             *)

\* the values rand() returns
RandValues == 0 .. (2 * MaxDims - 1)

InitDims ==
    /\ DIMS \in 1 .. MaxDims
    /\ points = [n \in 0 .. NUM_POINTS(DIMS) - 1 |-> DefaultPoint(DIMS)]
    /\ pc = "ctor"
    /\ idx = 0
    /\ i = 0
    /\ moves = 0
    /\ r = NoRotation
    /\ saved = points
    /\ entry = points
    /\ rotate_calls = 0
    /\ rotations = <<>>
    /\ last_unsolvedness = NoValue
    /\ current_unsolvedness = NoValue
    /\ random_value = NoValue
    /\ reported = NoValue
    /\ rnd = NoRotation
    /\ input = <<>>

\* points[idx] = Point<DIMS>::from_index(idx); ++idx
CtorStep ==
    /\ pc = "ctor"
    /\ idx < NUM_POINTS(DIMS)
    /\ points' = [points EXCEPT ![idx] = from_index(idx, DIMS)]
    /\ idx' = idx + 1
    /\ UNCHANGED <<DIMS, i, pc, moves, r, saved, rotate_calls, solveVars, rnd, input>>

\* the constructor's loop ends
CtorDone ==
    /\ pc = "ctor"
    /\ idx >= NUM_POINTS(DIMS)
    /\ pc' = "constructed"
    /\ saved' = points
    /\ UNCHANGED <<DIMS, points, loopVars, moves, r, rotate_calls, solveVars, rnd, input>>

\* side, axis and the first from are drawn; to is not drawn yet
RandomEnter(v1, v2, v3) ==
    /\ pc = "constructed"
    /\ rnd' = [side |-> (v1 % 2) * 2, axis |-> v2 % DIMS, from |-> v3 % DIMS,
               to |-> NoRotation.to]
    /\ pc' = "random_from"
    /\ UNCHANGED <<DIMS, points, loopVars, moves, r, saved, rotate_calls, solveVars, input>>

\* while (from == axis) from = rand() % DIMS
RandomFromAgain(v) ==
    /\ pc = "random_from"
    /\ rnd.from = rnd.axis
    /\ rnd' = [rnd EXCEPT !.from = v % DIMS]
    /\ UNCHANGED <<DIMS, points, pc, loopVars, moves, r, saved, rotate_calls,
                   solveVars, input>>

\* the from loop ends; to is drawn
RandomFromDone(v) ==
    /\ pc = "random_from"
    /\ rnd.from # rnd.axis
    /\ rnd' = [rnd EXCEPT !.to = v % DIMS]
    /\ pc' = "random_to"
    /\ UNCHANGED <<DIMS, points, loopVars, moves, r, saved, rotate_calls, solveVars, input>>

\* the test of the to loop with its second half forgotten
ToClashes_AxisOnly(l) == l.to = l.axis

\* the test of the to loop: to == axis || to == from
ToClashes(l) == l.to = l.axis \/ l.to = l.from

\* while (to == axis || to == from) to = rand() % DIMS
RandomToAgain(v) ==
    /\ pc = "random_to"
    /\ ToClashes(rnd)
    /\ rnd' = [rnd EXCEPT !.to = v % DIMS]
    /\ UNCHANGED <<DIMS, points, pc, loopVars, moves, r, saved, rotate_calls,
                   solveVars, input>>

\* the Rotation that random() returns from its locals
RandomResult(l) ==
    [axis |-> U8(l.axis), from |-> U8(l.from), to |-> U8(l.to), side |-> l.side]

\* random() returns and shuffle applies the rotation
RandomReturn ==
    /\ pc = "random_to"
    /\ ~ToClashes(rnd)
    /\ r' = RandomResult(rnd)
    /\ LET c == Cube_rotate(Fresh(points), RandomResult(rnd))
       IN  /\ points' = c.points
           /\ rotate_calls' = c.calls
    /\ saved' = points
    /\ moves' = moves + 1
    /\ pc' = "rotated"
    /\ UNCHANGED <<DIMS, loopVars, solveVars, rnd, input>>

NextDims ==
    \/ CtorStep
    \/ CtorDone
    \/ \E v1, v2, v3 \in RandValues : RandomEnter(v1, v2, v3)
    \/ \E v \in RandValues : RandomFromAgain(v)
    \/ \E v \in RandValues : RandomFromDone(v)
    \/ \E v \in RandValues : RandomToAgain(v)
    \/ RandomReturn

SpecDims == InitDims /\ [][NextDims]_vars

-----------------------------------------------------------------------------
(* Properties of construction (SpecDims).                                  *)

\* C4: a freshly constructed Cube of dimension DIMS >= 3 is solved: every
\* point has coords = original_coords and the identity orientation,
\* is_solved() is true and unsolvedness() is 0.
C4_FreshCubeIsSolved ==
    (pc = "constructed" /\ DIMS >= 3) =>
        /\ \A n \in DOMAIN points :
              /\ points[n].coords = points[n].original_coords
              /\ points[n].orientation = [k \in 0 .. DIMS - 1 |-> k]
        /\ is_solved(points)
        /\ unsolvedness(points) = 0

\* C4 witness: the constructor of a four-dimensional cube has finished
C4_Witness ==
    pc = "constructed" /\ DIMS = 4 /\ idx = 81 /\ Cardinality(DOMAIN points) = 81

RECURSIVE Pow3(_)
Pow3(d) == IF d = 0 THEN 1 ELSE 3 * Pow3(d - 1)

RECURSIVE Encode(_, _)
Encode(v, d) ==
    IF d \notin DOMAIN v THEN 0 ELSE v[d] * Pow3(d) + Encode(v, d + 1)

\* C5: every point the constructor has built from index n has
\* coords[d] = (n / 3^d) mod 3, and these coords encode n again; the cube has
\* 3^DIMS points, and once it is constructed every cell of {0,1,2}^DIMS is the
\* original position of exactly one point.
C5_IndexRoundTrip ==
    /\ Cardinality(DOMAIN points) = Pow3(DIMS)
    /\ \A n \in 0 .. idx - 1 :
          /\ \A d \in 0 .. DIMS - 1 :
                points[n].original_coords[d] = (n \div Pow3(d)) % 3
          /\ Encode(points[n].original_coords, 0) = n
          /\ pc \in {"ctor", "constructed"} =>
                points[n].coords = points[n].original_coords
    /\ pc # "ctor" =>
          \A cell \in Cells(DIMS) :
              Cardinality({n \in DOMAIN points : points[n].original_coords = cell}) = 1

\* C5 witness: all 81 points of a four-dimensional cube have been built,
\* the last of them at (2,2,2,2)
C5_Witness ==
    /\ pc = "constructed" /\ DIMS = 4 /\ idx = 81
    /\ points[80].coords = [k \in 0 .. 3 |-> 2]

\* C8 as stated: for DIMS < 3 no cube is produced and Rotation::random
\* neither runs nor returns a rotation.
C8_DimsBelowThreeRejected ==
    DIMS < 3 => pc \notin {"constructed", "random_from", "random_to", "rotated"}

-----------------------------------------------------------------------------
(* Properties of Point::rotate for DIMS = 3 and above (SpecDims): the      *)
(* points are those of the constructed cube and of the cube after one      *)
(* drawn rotation, the rotations all those the assertions accept.          *)

\* C13: Point::rotate(r) leaves a point whose coords[r.axis] is not r.side
\* exactly as it was; for any point it keeps original_coords and every
\* component of coords and of orientation other than those at r.from and
\* r.to, coords[r.axis] among them, so a point is on the slice after the
\* call exactly when it was before; and the rotation Cube::rotate has just
\* applied changed no point off its slice and kept the set of points on it.
C13_RotateFrame ==
    pc \in {"constructed", "rotated"} =>
        /\ \A rot \in ValidRotations(DIMS), n \in DOMAIN points :
              LET p == points[n]
                  q == Point_rotate(p, rot)
              IN  /\ p.coords[rot.axis] # rot.side => q = p
                  /\ q.original_coords = p.original_coords
                  /\ \A k \in (0 .. DIMS - 1) \ {rot.from, rot.to} :
                        /\ q.coords[k] = p.coords[k]
                        /\ q.orientation[k] = p.orientation[k]
                  /\ (q.coords[rot.axis] = rot.side) <=> (p.coords[rot.axis] = rot.side)
        /\ pc = "rotated" =>
              /\ \A n \in DOMAIN points :
                    saved[n].coords[r.axis] # r.side => points[n] = saved[n]
              /\ {n \in DOMAIN points : points[n].coords[r.axis] = r.side}
                    = {n \in DOMAIN points : saved[n].coords[r.axis] = r.side}

\* a rotation of a four-dimensional cube has moved a point of its slice,
\* which has a component that is neither axis, from nor to
C13_Witness ==
    /\ pc = "rotated"
    /\ DIMS = 4
    /\ \E n \in DOMAIN points :
          /\ saved[n].coords[r.axis] = r.side
          /\ points[n].coords # saved[n].coords
          /\ points[n].orientation # saved[n].orientation
    /\ \E n \in DOMAIN points : saved[n].coords[r.axis] # r.side

\* the nine pairs (coords[from], coords[to]) with the pair each becomes
PairTable ==
    { <<<<0, 0>>, <<2, 0>>>>, <<<<0, 1>>, <<1, 0>>>>, <<<<0, 2>>, <<0, 0>>>>,
      <<<<1, 0>>, <<2, 1>>>>, <<<<1, 1>>, <<1, 1>>>>, <<<<1, 2>>, <<0, 1>>>>,
      <<<<2, 0>>, <<2, 2>>>>, <<<<2, 1>>, <<1, 2>>>>, <<<<2, 2>>, <<0, 2>>>> }

\* (coords[from], coords[to]) of a point
Pair(p, rot) == <<p.coords[rot.from], p.coords[rot.to]>>

\* C14: for a point on the slice, Point::rotate takes (coords[from],
\* coords[to]) to the pair the table gives, (0,0)->(2,0), (0,1)->(1,0),
\* (0,2)->(0,0), (1,0)->(2,1), (1,1)->(1,1), (1,2)->(0,1), (2,0)->(2,2),
\* (2,1)->(1,2), (2,2)->(0,2), and exchanges orientation[from] and
\* orientation[to] in all nine cases, (1,1) included.
C14_PairTable ==
    pc \in {"constructed", "rotated"} =>
        \A rot \in ValidRotations(DIMS), n \in DOMAIN points :
            LET p == points[n]
                q == Point_rotate(p, rot)
            IN  p.coords[rot.axis] = rot.side =>
                    /\ <<Pair(p, rot), Pair(q, rot)>> \in PairTable
                    /\ q.orientation[rot.from] = p.orientation[rot.to]
                    /\ q.orientation[rot.to] = p.orientation[rot.from]

\* Cube::rotate has turned a slice holding all nine pairs: each point of it
\* has the pair the table gives, and the point at (1,1) has kept its place
\* and exchanged its orientation
C14_Witness ==
    /\ pc = "rotated"
    /\ \A e \in PairTable :
          \E n \in DOMAIN points :
              /\ saved[n].coords[r.axis] = r.side
              /\ Pair(saved[n], r) = e[1]
              /\ Pair(points[n], r) = e[2]
    /\ \E n \in DOMAIN points :
          /\ saved[n].coords[r.axis] = r.side
          /\ Pair(saved[n], r) = <<1, 1>>
          /\ points[n].coords = saved[n].coords
          /\ points[n].orientation # saved[n].orientation

\* a point after k calls of Point::rotate with the same rotation
RECURSIVE Turned(_, _, _)
Turned(p, rot, k) == IF k = 0 THEN p ELSE Turned(Point_rotate(p, rot), rot, k - 1)

\* C15 as stated: the table is not one quarter turn, its entries
\* (0,0)->(2,0) and (2,2)->(0,2) are on no common cycle: a slice point at
\* (0,0) never comes to (2,2), however often the rotation is repeated.
C15_CornersOnNoCommonCycle ==
    pc \in {"constructed", "rotated"} =>
        \A rot \in ValidRotations(DIMS), n \in DOMAIN points :
            (points[n].coords[rot.axis] = rot.side /\ Pair(points[n], rot) = <<0, 0>>)
                => \A k \in 0 .. 4 : Pair(Turned(points[n], rot, k), rot) # <<2, 2>>

\* C15, amended: the table is one quarter turn of the 3 x 3 slice, (f, t)
\* -> (2 - t, f); the four corner pairs are one cycle of length four,
\* (0,0)->(2,0)->(2,2)->(0,2)->(0,0), which holds both (0,0)->(2,0) and
\* (2,2)->(0,2), and so are the four edge pairs,
\* (0,1)->(1,0)->(2,1)->(1,2)->(0,1).
C15_OneQuarterTurn ==
    pc \in {"constructed", "rotated"} =>
        \A rot \in ValidRotations(DIMS), n \in DOMAIN points :
            LET p == points[n]
                Orbit == [k \in 1 .. 4 |-> Pair(Turned(p, rot, k), rot)]
            IN  p.coords[rot.axis] = rot.side =>
                    /\ Orbit[1] = <<2 - p.coords[rot.to], p.coords[rot.from]>>
                    /\ Pair(p, rot) = <<0, 0>>
                          => Orbit = <<<<2, 0>>, <<2, 2>>, <<0, 2>>, <<0, 0>>>>
                    /\ Pair(p, rot) = <<0, 1>>
                          => Orbit = <<<<1, 0>>, <<2, 1>>, <<1, 2>>, <<0, 1>>>>

\* Cube::rotate has taken one point from (0,0) to (2,0), another from (2,0)
\* to (2,2) and a third from (2,2) to (0,2)
C15_Witness ==
    /\ pc = "rotated"
    /\ \A e \in {<<<<0, 0>>, <<2, 0>>>>, <<<<2, 0>>, <<2, 2>>>>, <<<<2, 2>>, <<0, 2>>>>} :
          \E n \in DOMAIN points :
              /\ saved[n].coords[r.axis] = r.side
              /\ Pair(saved[n], r) = e[1]
              /\ Pair(points[n], r) = e[2]

\* C17: for DIMS >= 3 the rotation Rotation::random returns, which shuffle
\* hands to Cube::rotate, has axis, from and to pairwise distinct and below
\* DIMS and side FRONT or BACK, so the assertions of Point::rotate hold for
\* it; the same is true of every rotation shuffle and solve can draw.
C17_RandomIsValid ==
    /\ (pc = "rotated" /\ DIMS >= 3) =>
          /\ r.axis # r.from /\ r.axis # r.to /\ r.from # r.to
          /\ {r.axis, r.from, r.to} \subseteq 0 .. DIMS - 1
          /\ r.side \in {FRONT, BACK}
          /\ RotationAssertsHold(r, DIMS)
          /\ r \in RandomRotations(DIMS)
    /\ DIMS >= 3 =>
          \A rot \in RandomRotations(DIMS) :
              /\ RotationAssertsHold(rot, DIMS)
              /\ rot.side \in {FRONT, BACK}

\* Rotation::random has returned axis 3, from 0, to 2 on the back side, and
\* the rotation has been applied to a four-dimensional cube
C17_Witness ==
    /\ pc = "rotated"
    /\ DIMS = 4
    /\ r = Rot(3, 0, 2, BACK)
    /\ points # saved

-----------------------------------------------------------------------------
(* main() (SpecMain): the cube is constructed and shuffled, then each line *)
(* the user types is split, parsed and applied.  A character is its code.  *)

CharZero == 48
CharComma == 44
ShuffleTimes == 100

\* split(string, sep): getline until the stream is no longer good; the text
\* after the last separator is pushed too, also when it is empty
RECURSIVE SplitFrom(_, _, _, _, _)
SplitFrom(string, sep, k, substr, result) ==
    IF k > Len(string)
    THEN Append(result, substr)
    ELSE IF string[k] = sep
         THEN SplitFrom(string, sep, k + 1, <<>>, Append(result, substr))
         ELSE SplitFrom(string, sep, k + 1, Append(substr, string[k]), result)

split(string, sep) == SplitFrom(string, sep, 1, <<>>, <<>>)

\* rotparts[i++] = (dim_t)c - '0' for the four characters of a part, and the
\* Rotation made of them
ParsePart(part) ==
    LET rotparts == [k \in 1 .. 4 |-> U8(part[k] + 256 - CharZero)]
    IN  [axis |-> rotparts[1], from |-> rotparts[2], to |-> rotparts[3],
         side |-> rotparts[4]]

get_rots_from_user(line) ==
    LET parts == split(line, CharComma)
    IN  [k \in 1 .. Len(parts) |-> ParsePart(parts[k])]

\* for (auto r : rotations) c.rotate(r), ended by the first failed assertion
\* (the assertions are compiled in: nothing in the file defines NDEBUG)
RECURSIVE RotateUser(_, _, _, _)
RotateUser(c, rots, k, dims) ==
    IF k > Len(rots)
    THEN [cube |-> c, aborted |-> FALSE]
    ELSE IF RotateAborts(c.points, rots[k], dims)
         THEN [cube |-> [c EXCEPT !.calls = @ + 1], aborted |-> TRUE]
         ELSE RotateUser(Cube_rotate(c, rots[k]), rots, k + 1, dims)

\* the characters the user types, the parts they make, and the lines: every
\* single part of four digits '0'..'3', and two parts joined by a comma (a
\* part of another length makes the parser read or write outside rotparts)
Digits == CharZero .. (CharZero + INIT_DIMS)
Parts == [1 .. 4 -> Digits]
Part_1202 == <<49, 50, 48, 50>>
Part_0121 == <<48, 49, 50, 49>>
UserLines ==
    Parts \cup {p \o <<CharComma>> \o q : p, q \in {Part_1202, Part_0121}}

\* the rotations Rotation::random returns to main's shuffle(100): the
\* quarter turns of one face, either way round
MainShuffleRotations == {Rot(0, 1, 2, FRONT), Rot(0, 2, 1, FRONT)}

InitMain ==
    /\ DIMS = INIT_DIMS
    /\ points = Cube(INIT_DIMS)
    /\ pc = "main_start"
    /\ moves = 0
    /\ r = NoRotation
    /\ saved = Cube(INIT_DIMS)
    /\ entry = Cube(INIT_DIMS)
    /\ rotate_calls = 0
    /\ rotations = <<>>
    /\ last_unsolvedness = NoValue
    /\ current_unsolvedness = NoValue
    /\ random_value = NoValue
    /\ reported = NoValue
    /\ idx = NUM_POINTS(INIT_DIMS)
    /\ i = 0
    /\ rnd = NoRotation
    /\ input = <<>>

\* one pass of the loop of c.shuffle(100): rotate(Rotation::random<DIMS>())
MainShuffleStep(rot) ==
    /\ pc = "main_start"
    /\ i < ShuffleTimes
    /\ LET c == Cube_rotate(Fresh(points), rot)
       IN  /\ points' = c.points
           /\ rotate_calls' = c.calls
    /\ i' = i + 1
    /\ saved' = points
    /\ UNCHANGED <<DIMS, pc, moves, r, solveVars, idx, rnd, input>>

\* the loop of shuffle ends; c.show()
MainShuffleDone ==
    /\ pc = "main_start"
    /\ i >= ShuffleTimes
    /\ pc' = "main_loop"
    /\ saved' = points
    /\ rotate_calls' = 0
    /\ UNCHANGED <<DIMS, points, moves, r, solveVars, loopVars, rnd, input>>

\* one pass of main's loop: a line is read, its rotations are applied
MainLoop(line) ==
    /\ pc = "main_loop"
    /\ moves < MaxInputs
    /\ input' = line
    /\ LET res == RotateUser(Fresh(points), get_rots_from_user(line), 1, DIMS)
       IN  /\ points' = res.cube.points
           /\ rotate_calls' = res.cube.calls
           /\ pc' = IF res.aborted THEN "aborted" ELSE "main_loop"
    /\ saved' = points
    /\ moves' = moves + 1
    /\ UNCHANGED <<DIMS, r, solveVars, loopVars, rnd>>

NextMain ==
    \/ \E rot \in MainShuffleRotations : MainShuffleStep(rot)
    \/ MainShuffleDone
    \/ \E line \in UserLines : MainLoop(line)

SpecMain == InitMain /\ [][NextMain]_vars

\* a rotation the boundary has to reject
Malformed(rot, dims) ==
    \/ rot.side \notin {FRONT, BACK}
    \/ rot.axis >= dims \/ rot.from >= dims \/ rot.to >= dims
    \/ rot.axis = rot.from \/ rot.from = rot.to \/ rot.to = rot.axis

\* C7 as stated: a line whose rotations are all malformed (side neither 0
\* nor 2, an axis index >= DIMS, or axis/from/to not pairwise distinct) leaves
\* every point's coords and orientation as they were.
C7_MalformedChangesNothing ==
    (/\ pc \in {"main_loop", "aborted"}
     /\ input # <<>>
     /\ \A k \in DOMAIN get_rots_from_user(input) :
           Malformed(get_rots_from_user(input)[k], DIMS))
        => points = saved

=============================================================================
